---- MODULE Spec2Model ----
(***************************************************************************)
(* Model of src/src/osl_schema/gather_categories.py: the recursive         *)
(* category / meta-category / instance traversal over an OSW (semantic     *)
(* MediaWiki) store, with its deduplication and its not-found error.       *)
(*                                                                         *)
(* A result row is the dictionary {"title": fulltext, "name": HasName}.    *)
(* Every comparison the code makes is on "title", and "name" is a function *)
(* of the page, so a row is represented by its title (the full page title  *)
(* of a page, never empty).                                                *)
(*                                                                         *)
(* The store is the wiki behind osw_obj.mw_site.ask: the pages that exist  *)
(* and, for every title, the rows the three property queries return, in    *)
(* the store's order. A page selector [[:c]] selects the one page c. The   *)
(* store changes only between calls.                                       *)
(***************************************************************************)
EXTENDS Integers, Sequences, FiniteSets

\* ------------------------------------------------------------------ bounds

\* Largest number of relation rows (SubClassOf, HasMetaCategory, HasSchema
\* statements, all together) the store holds.
MaxRows == 3
\* Largest number of pages that are referenced by rows but do not exist.
MaxMissing == 1
\* Largest max_depth a caller passes explicitly.
MaxDepthArg == 2

\* max_depth the string renderers pass (append_subcategories_to_string,
\* append_all_subcategories_and_instances_to_string).
RenderMaxDepth == 10

\* Page titles.
Ids == {"A", "B", "C", "D"}
SmallIds == {"A", "B", "C"}

\* "no exception raised" / "no previous call".
None == "None"

DepthArgs == (0 .. MaxDepthArg) \cup {RenderMaxDepth}

VARIABLES
    page,             \* titles of the pages that exist in the store
    SubClassOf,       \* SubClassOf[c]: rows of the ask query [[SubClassOf::c]]
    HasMetaCategory,  \* HasMetaCategory[c]: rows of [[-HasMetaCategory::c]]
    HasSchema,        \* HasSchema[c]: rows of [[HasSchema::c]]
    op,               \* the function last called, "idle" when none
    category_fpt,     \* its category_fpt argument
    max_depth,        \* its max_depth argument
    result,           \* the list it returned (<<>> when it raised)
    raised,           \* the category its ValueError names, None when it returned
    queries,          \* the ask queries it issued, in order
    warnings,         \* the categories of its "Max depth reached" warnings
    previous          \* result of the preceding call with the same arguments on
                      \* the same store, <<None>> when there was none

store == <<page, SubClassOf, HasMetaCategory, HasSchema>>
call == <<op, category_fpt, max_depth, result, raised, queries, warnings, previous>>
vars == <<page, SubClassOf, HasMetaCategory, HasSchema,
          op, category_fpt, max_depth, result, raised, queries, warnings, previous>>

\* ----------------------------------------------------------------- helpers

Range(s) == {s[i] : i \in 1 .. Len(s)}

Count(s, x) == Cardinality({i \in 1 .. Len(s) : s[i] = x})

NoDuplicates(s) == \A i, j \in 1 .. Len(s) : s[i] = s[j] => i = j

RECURSIVE RowsOf(_, _)
RowsOf(R, U) ==
    IF U = {} THEN 0
    ELSE LET c == CHOOSE x \in U : TRUE IN Len(R[c]) + RowsOf(R, U \ {c})

\* Number of relation rows in the store.
NumRows ==
    RowsOf(SubClassOf, Ids) + RowsOf(HasMetaCategory, Ids) + RowsOf(HasSchema, Ids)

\* --------------------------------------------------------- the ask queries

\* The ask query strings built at lines 91, 99, 155, 183 and 187.
PageQuery(c) == <<"page", c>>
SubClassQuery(c) == <<"SubClassOf", c>>
MetaCategoryQuery(c) == <<"-HasMetaCategory", c>>
SchemaQuery(c) == <<"HasSchema", c>>

\* query_return_dict_list: the rows the store answers the query with, one
\* dictionary per row, in the store's order; no rows for a page selector
\* [[:c]] of a page that does not exist.
query_return_dict_list(query) ==
    CASE query[1] = "page" -> IF query[2] \in page THEN <<query[2]>> ELSE <<>>
      [] query[1] = "SubClassOf" -> SubClassOf[query[2]]
      [] query[1] = "-HasMetaCategory" -> HasMetaCategory[query[2]]
      [] query[1] = "HasSchema" -> HasSchema[query[2]]

\* --------------------------------------------------------- deduplication

RECURSIVE UniqueFrom(_, _)
UniqueFrom(items, unique_items) ==
    IF items = <<>> THEN unique_items
    ELSE UniqueFrom(Tail(items),
                    IF Head(items) \in Range(unique_items) THEN unique_items
                    ELSE Append(unique_items, Head(items)))

\* Faulty variant of Unique: no deduplication.
Unique_Keep(items) == items

\* The loop "for item in ...: if fpt and fpt not in fpt_list": the first
\* occurrence of every title, in order.
Unique(items) == UniqueFrom(items, <<>>)

\* ------------------------------------------------------- get_subcategories

\* What a call did: the list it returns, the queries it issued, the
\* warnings it logged, and the category its ValueError names (None when it
\* returned).
Outcome(res, log, warn, err) == [res |-> res, log |-> log, warn |-> warn, err |-> err]

\* Faulty variant of DepthExceeded: the recursion stops one level early.
DepthExceeded_Early(depth, maxDepth) == depth >= maxDepth

\* "if depth > max_depth"
DepthExceeded(depth, maxDepth) == depth > maxDepth

\* Faulty variant of NotFound: the failed lookup returns an empty list.
NotFound_Swallowed(c, log) == Outcome(<<>>, log, <<>>, None)

\* "raise ValueError(f"Category {category_fpt} not found")" after the
\* queries of log.
NotFound(c, log) == Outcome(<<>>, log, <<>>, c)

\* Faulty variant of Collect: the queried category itself is not included.
Collect_NoSelf(result1, results2, sub_subcategories) ==
    results2 \o sub_subcategories

\* Faulty variant of Collect: each child's list is collected before the rows of
\* the subclass query are added.
Collect_SubtreesFirst(result1, results2, sub_subcategories) ==
    <<Head(result1)>> \o sub_subcategories \o results2

\* The list "subcategories" before deduplication: the queried category
\* itself, the rows of the subclass query, then the lists of the recursive
\* calls in the order of the rows.
Collect(result1, results2, sub_subcategories) ==
    <<Head(result1)>> \o results2 \o sub_subcategories

RECURSIVE get_subcategories(_, _, _)
RECURSIVE Descend(_, _, _, _)

\* The loop "for result in results2": the recursive calls one after the
\* other, their lists concatenated; an exception of one call ends the loop.
Descend(results2, depth, maxDepth, acc) ==
    IF results2 = <<>> \/ acc.err # None THEN acc
    ELSE LET sub == get_subcategories(Head(results2), depth + 1, maxDepth)
         IN Descend(Tail(results2), depth, maxDepth,
                    Outcome(acc.res \o sub.res, acc.log \o sub.log,
                            acc.warn \o sub.warn, sub.err))

get_subcategories(c, depth, maxDepth) ==
    IF DepthExceeded(depth, maxDepth) THEN Outcome(<<>>, <<>>, <<c>>, None)
    ELSE
      LET query1 == PageQuery(c)
          result1 == query_return_dict_list(query1)
      IN IF result1 = <<>> THEN NotFound(c, <<query1>>)
         ELSE
           LET query2 == SubClassQuery(c)
               results2 == query_return_dict_list(query2)
               subs == Descend(results2, depth, maxDepth,
                               Outcome(<<>>, <<query1, query2>>, <<>>, None))
           IN IF subs.err # None THEN Outcome(<<>>, subs.log, subs.warn, subs.err)
              ELSE Outcome(Unique(Collect(result1, results2, subs.res)),
                           subs.log, subs.warn, None)

\* ------------------------------------- get_subcategories_and_metacategories

\* The loop "for subcat in subcategories": one meta-category query per
\* record, the rows of all of them concatenated.
RECURSIVE MetaCategories(_, _)
MetaCategories(subcategories, acc) ==
    IF subcategories = <<>> THEN acc
    ELSE LET metacat_query == MetaCategoryQuery(Head(subcategories))
             metacat_results == query_return_dict_list(metacat_query)
         IN MetaCategories(Tail(subcategories),
                           Outcome(acc.res \o metacat_results,
                                   Append(acc.log, metacat_query), acc.warn, None))

get_subcategories_and_metacategories(c, maxDepth) ==
    LET subcategories == get_subcategories(c, 0, maxDepth)
    IN IF subcategories.err # None THEN subcategories
       ELSE LET metacategories ==
                    MetaCategories(subcategories.res,
                                   Outcome(<<>>, subcategories.log,
                                           subcategories.warn, None))
            IN Outcome(subcategories.res \o metacategories.res,
                       metacategories.log, metacategories.warn, None)

\* ------------------------------------------------------------ get_instances

\* Faulty variant of get_instances: the rows of the schema query are added
\* only where they are new.
get_instances_Merged(c) ==
    Outcome(Unique(query_return_dict_list(PageQuery(c))
                   \o query_return_dict_list(SchemaQuery(c))),
            <<PageQuery(c), SchemaQuery(c)>>, <<>>, None)

get_instances(c) ==
    LET query1 == PageQuery(c)
        instances == query_return_dict_list(query1)
        query2 == SchemaQuery(c)
    IN Outcome(instances \o query_return_dict_list(query2),
               <<query1, query2>>, <<>>, None)

\* ----------------------------------------- get_all_instances_and_subcategories

\* The loop "for subcat in subcategories": get_instances of every record,
\* the lists concatenated.
RECURSIVE Instances(_, _)
Instances(subcategories, acc) ==
    IF subcategories = <<>> THEN acc
    ELSE LET instances == get_instances(Head(subcategories))
         IN Instances(Tail(subcategories),
                      Outcome(acc.res \o instances.res, acc.log \o instances.log,
                              acc.warn, None))

get_all_instances_and_subcategories(c, maxDepth) ==
    LET subcategories == get_subcategories_and_metacategories(c, maxDepth)
    IN IF subcategories.err # None THEN subcategories
       ELSE LET all_items ==
                    Instances(subcategories.res,
                              Outcome(subcategories.res, subcategories.log,
                                      subcategories.warn, None))
            IN Outcome(Unique(all_items.res), all_items.log, all_items.warn, None)

\* --------------------------------------------------------- the text renderer

\* The lines of the string: "# <name> <note>" is <<"#", title>> (the name
\* is that of the record with this title), '"<title>",  # <name>' is
\* <<"item", title>>.
RECURSIVE ItemLines(_)
ItemLines(dict_list) ==
    IF dict_list = <<>> THEN <<>>
    ELSE <<(<<"item", Head(dict_list)>>)>> \o ItemLines(Tail(dict_list))

append_dict_to_string(string, dict_list) ==
    string \o <<(<<"#", Head(dict_list)>>)>> \o ItemLines(dict_list)

append_subcategories_to_string(string, c) ==
    LET subcats == get_subcategories_and_metacategories(c, RenderMaxDepth)
    IN IF subcats.err # None THEN subcats
       ELSE Outcome(append_dict_to_string(string, subcats.res),
                    subcats.log, subcats.warn, None)

\* The titles of the item lines of a rendered string.
RECURSIVE ItemTitles(_)
ItemTitles(string) ==
    IF string = <<>> THEN <<>>
    ELSE (IF Head(string)[1] = "item" THEN <<Head(string)[2]>> ELSE <<>>)
         \o ItemTitles(Tail(string))

\* ------------------------------------------------------------------ state

NoRows == [c \in Ids |-> <<>>]

Idle ==
    /\ op = "idle"
    /\ category_fpt = None
    /\ max_depth = 0
    /\ result = <<>>
    /\ raised = None
    /\ queries = <<>>
    /\ warnings = <<>>
    /\ previous = <<None>>

Init ==
    /\ page = Ids
    /\ SubClassOf = NoRows
    /\ HasMetaCategory = NoRows
    /\ HasSchema = NoRows
    /\ Idle

\* A page is given a SubClassOf statement: it becomes the last row of the
\* subclass query of its parent.
DeclareSubClass(U, budget) ==
    /\ op = "idle"
    /\ NumRows < budget
    /\ \E parent \in U, child \in U :
         /\ child \notin Range(SubClassOf[parent])
         /\ SubClassOf' = [SubClassOf EXCEPT ![parent] = Append(@, child)]
    /\ UNCHANGED <<page, HasMetaCategory, HasSchema, call>>

Returned(name, c, md, out) ==
    /\ op' = name
    /\ category_fpt' = c
    /\ max_depth' = md
    /\ result' = out.res
    /\ raised' = out.err
    /\ queries' = out.log
    /\ warnings' = out.warn

\* A caller calls get_subcategories(osw_obj, category_fpt, max_depth=md).
CallGetSubcategories(U) ==
    /\ op = "idle"
    /\ \E c \in U, md \in DepthArgs :
         Returned("get_subcategories", c, md, get_subcategories(c, 0, md))
    /\ previous' = <<None>>
    /\ UNCHANGED store

\* A category is given a HasMetaCategory statement: the meta-category
\* becomes the last row of the category's meta-category query.
DeclareMetaCategory(U, budget) ==
    /\ op = "idle"
    /\ NumRows < budget
    /\ \E c \in U, metacat \in U :
         /\ metacat \notin Range(HasMetaCategory[c])
         /\ HasMetaCategory' = [HasMetaCategory EXCEPT ![c] = Append(@, metacat)]
    /\ UNCHANGED <<page, SubClassOf, HasSchema, call>>

\* An entity is given a HasSchema statement: it becomes the last row of the
\* schema query of the category.
DeclareSchema(U, budget) ==
    /\ op = "idle"
    /\ NumRows < budget
    /\ \E c \in U, instance \in U :
         /\ instance \notin Range(HasSchema[c])
         /\ HasSchema' = [HasSchema EXCEPT ![c] = Append(@, instance)]
    /\ UNCHANGED <<page, SubClassOf, HasMetaCategory, call>>

\* A page is deleted; the statements that name it stay.
DeletePage(U) ==
    /\ op = "idle"
    /\ Cardinality(Ids \ page) < MaxMissing
    /\ \E c \in U \cap page : page' = page \ {c}
    /\ UNCHANGED <<SubClassOf, HasMetaCategory, HasSchema, call>>

CallGetSubcategoriesAndMetacategories(U) ==
    /\ op = "idle"
    /\ \E c \in U, md \in DepthArgs :
         Returned("get_subcategories_and_metacategories", c, md,
                  get_subcategories_and_metacategories(c, md))
    /\ previous' = <<None>>
    /\ UNCHANGED store

CallGetInstances(U) ==
    /\ op = "idle"
    /\ \E c \in U : Returned("get_instances", c, 0, get_instances(c))
    /\ previous' = <<None>>
    /\ UNCHANGED store

CallGetAllInstancesAndSubcategories(U) ==
    /\ op = "idle"
    /\ \E c \in U, md \in DepthArgs :
         Returned("get_all_instances_and_subcategories", c, md,
                  get_all_instances_and_subcategories(c, md))
    /\ previous' = <<None>>
    /\ UNCHANGED store

\* append_subcategories_to_string(string="", category_fpt, osw_obj); result
\* holds the lines of the returned string.
CallAppendSubcategoriesToString(U) ==
    /\ op = "idle"
    /\ \E c \in U :
         Returned("append_subcategories_to_string", c, RenderMaxDepth,
                  append_subcategories_to_string(<<>>, c))
    /\ previous' = <<None>>
    /\ UNCHANGED store

\* The caller repeats the call with the same arguments.
CallAgain ==
    /\ op = "get_subcategories"
    /\ previous = <<None>>
    /\ previous' = result
    /\ Returned(op, category_fpt, max_depth,
                get_subcategories(category_fpt, 0, max_depth))
    /\ UNCHANGED store

\* The caller is done with the result.
Return ==
    /\ op # "idle"
    /\ Returned("idle", None, 0, Outcome(<<>>, <<>>, <<>>, None))
    /\ previous' = <<None>>
    /\ UNCHANGED store

Next ==
    \/ DeclareSubClass(Ids, MaxRows)
    \/ CallGetSubcategories(Ids)
    \/ CallAgain
    \/ Return

\* The store of subclass statements over existing pages, and get_subcategories.
Spec == Init /\ [][Next]_vars

\* Stores in which pages named by subclass statements may not exist.
NextErr ==
    \/ DeclareSubClass(SmallIds, MaxRows)
    \/ DeletePage(SmallIds)
    \/ CallGetSubcategories(SmallIds)
    \/ CallGetSubcategoriesAndMetacategories(SmallIds)
    \/ CallGetAllInstancesAndSubcategories(SmallIds)
    \/ Return

SpecErr == Init /\ [][NextErr]_vars

\* Stores of subclass and meta-category statements.
NextMeta ==
    \/ DeclareSubClass(SmallIds, MaxRows)
    \/ DeclareMetaCategory(SmallIds, MaxRows)
    \/ CallGetSubcategoriesAndMetacategories(SmallIds)
    \/ CallAppendSubcategoriesToString(SmallIds)
    \/ Return

SpecMeta == Init /\ [][NextMeta]_vars

\* Stores of subclass, meta-category and schema statements.
NextAll ==
    \/ DeclareSubClass(SmallIds, MaxRows)
    \/ DeclareMetaCategory(SmallIds, MaxRows)
    \/ DeclareSchema(SmallIds, MaxRows)
    \/ CallGetInstances(SmallIds)
    \/ CallGetAllInstancesAndSubcategories(SmallIds)
    \/ Return

SpecAll == Init /\ [][NextAll]_vars

\* ------------------------------------------------------ the subclass graph

Children(c) == Range(SubClassOf[c])

\* The categories at depth <= k below c: those a chain of at most k
\* subclass rows leads to.
RECURSIVE Within(_, _)
Within(c, k) ==
    IF k = 0 THEN {c}
    ELSE LET W == Within(c, k - 1) IN W \cup UNION {Children(w) : w \in W}

\* No category is a subclass of itself, directly or through others.
CycleFree == \A c \in Ids : \A d \in Children(c) : c \notin Within(d, Cardinality(Ids))

\* The ends of the chains one subclass row longer than those ending at the
\* categories of ends (a category once for every chain).
RECURSIVE Extend(_)
Extend(ends) ==
    IF ends = <<>> THEN <<>> ELSE SubClassOf[Head(ends)] \o Extend(Tail(ends))

\* The ends of the chains of at most k more subclass rows.
RECURSIVE PathEnds(_, _)
PathEnds(ends, k) ==
    IF k = 0 THEN ends ELSE ends \o PathEnds(Extend(ends), k - 1)

\* The number of chains of at most k subclass rows from c to x.
PathsUpTo(c, x, k) == Count(PathEnds(<<c>>, k), x)

\* The order of a depth-first descent that keeps one set of visited
\* categories for the whole call: every child not yet visited is appended
\* and its subtree collected before the next sibling is looked at.
RECURSIVE Visit(_, _, _, _)
RECURSIVE VisitChildren(_, _, _, _)
Visit(c, depth, maxDepth, out) ==
    IF depth > maxDepth THEN out
    ELSE VisitChildren(SubClassOf[c], depth, maxDepth, out)
VisitChildren(rows, depth, maxDepth, out) ==
    IF rows = <<>> THEN out
    ELSE IF Head(rows) \in Range(out) THEN VisitChildren(Tail(rows), depth, maxDepth, out)
    ELSE VisitChildren(Tail(rows), depth, maxDepth,
                       Visit(Head(rows), depth + 1, maxDepth, Append(out, Head(rows))))

DepthFirst(c, maxDepth) == Visit(c, 0, maxDepth, <<c>>)

GetSubcategoriesReturned == op = "get_subcategories" /\ raised = None

\* ------------------------------------------------------------------ claims

\* C1 as stated: whenever the self-lookup of the root returns a row,
\* get_subcategories returns a non-empty list whose first element is the
\* root.
C1_Original ==
    (op = "get_subcategories" /\ category_fpt \in page)
        => (raised = None /\ result # <<>> /\ result[1] = category_fpt)

\* C1, amended: whenever the self-lookup of the root and of every category
\* at depth <= max_depth below it returns a row, get_subcategories returns
\* a non-empty list whose first element is the root.
C1_SelfInclusion ==
    (op = "get_subcategories" /\ Within(category_fpt, max_depth) \subseteq page)
        => (raised = None /\ result # <<>> /\ result[1] = category_fpt)

\* A call on a root without subclasses, and with a missing page elsewhere,
\* has returned the root alone.
C1_Witness ==
    /\ op = "get_subcategories"
    /\ SubClassOf[category_fpt] = <<>>
    /\ page # Ids
    /\ result = <<category_fpt>>

\* C2 as stated: no record at a depth below the root greater than
\* max_depth is in the list get_subcategories returns.
C2_Original ==
    GetSubcategoriesReturned => Range(result) \subseteq Within(category_fpt, max_depth)

\* C2, amended: the list get_subcategories returns holds exactly the
\* categories at depth <= max_depth + 1 below the root.
C2_DepthBound ==
    GetSubcategoriesReturned => Range(result) = Within(category_fpt, max_depth + 1)

\* The chain A, B, C, D collected from A with max_depth = 1: C, at depth 2,
\* is in the list, D is not.
C2_Witness ==
    /\ GetSubcategoriesReturned
    /\ category_fpt = "A" /\ max_depth = 1
    /\ SubClassOf = [NoRows EXCEPT !["A"] = <<"B">>, !["B"] = <<"C">>, !["C"] = <<"D">>]
    /\ result = <<"A", "B", "C">>

\* C3: get_subcategories terminates on a subclass cycle: on a store where the subclasses of a are b and those of b are a,
\* get_subcategories(a, max_depth=10) returns a and b, each once, after
\* finitely many queries (two for each of the 11 levels).
C3_CycleSafety ==
    \A a, b \in Ids :
        (/\ op = "get_subcategories" /\ category_fpt = a /\ max_depth = RenderMaxDepth
         /\ a # b /\ SubClassOf[a] = <<b>> /\ SubClassOf[b] = <<a>>)
        => (/\ raised = None
            /\ result = <<a, b>>
            /\ Len(queries) = 2 * (RenderMaxDepth + 1))

\* The call on the cycle A, B with max_depth = 10 has returned.
C3_Witness ==
    /\ op = "get_subcategories" /\ category_fpt = "A" /\ max_depth = RenderMaxDepth
    /\ SubClassOf["A"] = <<"B">> /\ SubClassOf["B"] = <<"A">>
    /\ result = <<"A", "B">>

\* C4: when the self-lookup of the root returns no row, get_subcategories
\* raises the error naming the root, has issued that one query only, and
\* returns nothing.
C4_NotFound ==
    (op = "get_subcategories" /\ category_fpt \notin page)
        => (/\ raised = category_fpt
            /\ queries = <<PageQuery(category_fpt)>>
            /\ result = <<>>)

\* The root does not exist although the store has subclass rows for it.
C4_Witness ==
    /\ op = "get_subcategories"
    /\ category_fpt \notin page
    /\ SubClassOf[category_fpt] # <<>>
    /\ raised = category_fpt

\* The rows both queries of get_instances return for category c.
InBoth(c) == Range(query_return_dict_list(PageQuery(c)))
                 \cap Range(query_return_dict_list(SchemaQuery(c)))

\* C5: get_instances returns the rows of the page query followed by those
\* of the schema query, a row of both twice; the list
\* get_all_instances_and_subcategories returns holds such a row once, and
\* no title twice.
C5_InstanceMerge ==
    /\ op = "get_instances" =>
         /\ result = query_return_dict_list(PageQuery(category_fpt))
                         \o query_return_dict_list(SchemaQuery(category_fpt))
         /\ \A x \in InBoth(category_fpt) : Count(result, x) = 2
    /\ (op = "get_all_instances_and_subcategories" /\ raised = None) =>
         /\ NoDuplicates(result)
         /\ \A x \in InBoth(category_fpt) : Count(result, x) = 1

\* The aggregate of a category whose two instance queries share a row.
C5_Witness ==
    /\ op = "get_all_instances_and_subcategories"
    /\ \E x \in InBoth(category_fpt) :
         /\ Count(get_instances(category_fpt).res, x) = 2
         /\ Count(result, x) = 1
    /\ SubClassOf[category_fpt] # <<>>

TraversalTitles ==
    IF op = "append_subcategories_to_string" THEN ItemTitles(result) ELSE result

\* C7 as stated, in its first case (meta-categories that are not among the
\* subcategories): the traversal result of
\* get_subcategories_and_metacategories holds each title at most once.
C7_Original ==
    (/\ op \in {"get_subcategories_and_metacategories", "append_subcategories_to_string"}
     /\ raised = None
     /\ \A c \in Ids : Range(HasMetaCategory[c]) \cap Within(category_fpt, Cardinality(Ids)) = {})
        => NoDuplicates(TraversalTitles)

\* C8 as stated: within one get_subcategories call every category is
\* expanded (self-lookup and subclass query) at most once.
C8_Original ==
    op = "get_subcategories" =>
        \A x \in Ids : /\ Count(queries, PageQuery(x)) <= 1
                       /\ Count(queries, SubClassQuery(x)) <= 1

\* C8, amended: a category is expanded once for every chain of at most
\* max_depth subclass rows that leads from the root to it; the list
\* returned holds it once.
C8_Expansions ==
    GetSubcategoriesReturned =>
        /\ \A x \in Ids :
             LET paths == PathsUpTo(category_fpt, x, max_depth)
             IN /\ Count(queries, PageQuery(x)) = paths
                /\ Count(queries, SubClassQuery(x)) = paths
        /\ NoDuplicates(result)

\* C, reached from A directly and through B, has been expanded twice.
C8_Witness ==
    /\ GetSubcategoriesReturned
    /\ category_fpt = "A" /\ max_depth = MaxDepthArg
    /\ SubClassOf = [NoRows EXCEPT !["A"] = <<"B", "C">>, !["B"] = <<"C">>]
    /\ Count(queries, SubClassQuery("C")) = 2
    /\ Count(result, "C") = 1

\* C9 as stated: get_subcategories returns the records in depth-first
\* first-seen order.
C9_Original ==
    GetSubcategoriesReturned => result = DepthFirst(category_fpt, max_depth)

\* C9, amended: the list starts with the root followed by all its direct
\* subclasses in the store's order; the records found below them follow.
C9_Order ==
    GetSubcategoriesReturned =>
        LET first == Unique(<<category_fpt>> \o SubClassOf[category_fpt])
        IN /\ Len(first) <= Len(result)
           /\ SubSeq(result, 1, Len(first)) = first

\* The tree A with subclasses B, C and B with subclass D gives A, B, C, D.
C9_Witness ==
    /\ GetSubcategoriesReturned
    /\ category_fpt = "A" /\ max_depth = MaxDepthArg
    /\ SubClassOf = [NoRows EXCEPT !["A"] = <<"B", "C">>, !["B"] = <<"D">>]
    /\ result = <<"A", "B", "C", "D">>

\* C10: get_subcategories, and the two functions built on it, raise the
\* not-found error exactly when a category at depth <= max_depth below the
\* root has no page, name such a category and return nothing; a category
\* deeper than max_depth is never looked up by get_subcategories.
C10_ChildNotFound ==
    op \in {"get_subcategories", "get_subcategories_and_metacategories",
            "get_all_instances_and_subcategories"} =>
        LET missing == Within(category_fpt, max_depth) \ page
        IN /\ missing = {} => raised = None
           /\ missing # {} => (raised \in missing /\ result = <<>>)
           /\ op # "get_all_instances_and_subcategories" =>
                \A x \in Ids : Count(queries, PageQuery(x)) > 0
                                   => x \in Within(category_fpt, max_depth)

\* A call built on get_subcategories failed on a subclass, not on the root.
C10_Witness ==
    /\ op = "get_all_instances_and_subcategories"
    /\ raised \notin {None, category_fpt}
    /\ result = <<>>

====
